---- MODULE Spec2Model ----
(***************************************************************************)
(* RetriBertModel (src/src/transformers/modeling_retribert.py).            *)
(*                                                                         *)
(* Two specifications:                                                     *)
(*   Spec       the model object (its two encoders, possibly aliased) and  *)
(*              embed_questions / embed_answers, with                      *)
(*              embed_sentences_checkpointed executed statement by         *)
(*              statement;                                                 *)
(*   SpecScore  the scoring step of forward (lines 181-185) applied to     *)
(*              pairs of embedding matrices.                               *)
(*                                                                         *)
(* The BERT encoder is an external dependency.  It is modelled as an       *)
(* uninterpreted deterministic per-row function: a pooled row is the term  *)
(* <<"pool", weights, embedded row, extended mask row>>.  Two results are  *)
(* equal in this model only if they are equal for every such function.     *)
(***************************************************************************)
EXTENDS Integers, Sequences, FiniteSets, TLC

VARIABLES
    \* ---- the model object (RetriBertModel.__init__)
    share_encoders,          \* config.share_encoders
    bert_query,              \* reference to the query encoder object
    bert_doc,                \* reference to the document encoder, or None
    heap,                    \* encoder object -> its parameters
    \* ---- one call of embed_questions / embed_answers
    pc,                      \* position in the call
    role,                    \* "query" (embed_questions) | "doc" (embed_answers)
    input_ids,               \* tensor: [rows, cols]
    attention_mask,          \* tensor: [rows, cols]
    checkpoint_batch_size,
    sent_encoder,            \* reference passed to embed_sentences_checkpointed
    extended_attention_mask,
    embedding_output,
    rng,                     \* the range object of line 122
    it,                      \* how many elements of rng the for loop has taken
    b,                       \* loop variable of line 122
    pooled_output_list,
    reps,                    \* return value of embed_sentences_checkpointed
    result,                  \* return value of embed_questions / embed_answers
    err,                     \* the exception raised, "none" if none
    \* ---- history of the call (observations, never read by the code)
    single_pass,             \* line 98 was executed
    emb_runs,                \* how often the embedding-lookup layer ran
    enc_log,                 \* sub-batch indices encoded, in order
    \* ---- the scoring step of forward
    q_reps, a_reps,          \* the two embedding matrices
    spc,                     \* position in the scoring scenario
    loss,                    \* value returned by the scoring step
    serr,                    \* the exception raised by the scoring step
    first_loss,              \* loss of the first scoring of a scenario
    relation                 \* how the second scoring's arguments were obtained:
                             \* [kind, perm] (history)

evars == <<share_encoders, bert_query, bert_doc, heap, pc, role, input_ids,
           attention_mask, checkpoint_batch_size, sent_encoder,
           extended_attention_mask, embedding_output, rng, it, b,
           pooled_output_list, reps, result, err, single_pass, emb_runs,
           enc_log>>
svars == <<q_reps, a_reps, spc, loss, serr, first_loss, relation>>
vars == <<evars, svars>>

-----------------------------------------------------------------------------
(* Bounds of the model *)

\* largest number of rows of input_ids and of attention_mask
MaxB == 3

Vocab == {1, 2}          \* opaque codes of a row of token ids
MaskRows == {0, 1}       \* opaque codes of a row of the attention mask
SeqLens == {1, 2}        \* sequence lengths (number of columns)
Weights == {0, 1}        \* opaque codes of an encoder's parameters

\* Python's None, as a reference that names no object
None == 0
Unset == "unset"

Min(x, y) == IF x < y THEN x ELSE y

-----------------------------------------------------------------------------
(* Tensors: a sequence of rows and a column count *)

Tensor(rows, cols) == [rows |-> rows, cols |-> cols]

Shape(t) == <<Len(t.rows), t.cols>>

\* Python's seq[lo:hi] for 0 <= lo, 0 <= hi (0-based, clamped to the length)
Slice(s, lo, hi) ==
    LET a == Min(lo, Len(s))
        z == Min(hi, Len(s))
    IN  [i \in 1..(z - a) |-> s[a + i]]

SliceRows(t, lo, hi) == Tensor(Slice(t.rows, lo, hi), t.cols)

-----------------------------------------------------------------------------
(* The external encoder capability *)

\* sent_encoder.embeddings(input_ids=...): per-row lookup
Embeddings(w, ids) == Tensor([i \in 1..Len(ids.rows) |-> <<"emb", w, ids.rows[i]>>], ids.cols)

\* sent_encoder.get_extended_attention_mask(attention_mask, input_shape, device)
GetExtendedAttentionMask(mask) ==
    Tensor([i \in 1..Len(mask.rows) |-> <<"ext", mask.rows[i]>>], mask.cols)

\* partial_encode: encoder stack and pooler on hidden states and a mask.
\* The encoder is taken to reject every call whose hidden states and mask
\* differ in shape (the strictest contract the dependency could have).
PartialEncode(w, emb, mask) ==
    IF Shape(emb) /= Shape(mask)
    THEN [err |-> "ShapeError", rows |-> <<>>]
    ELSE [err |-> "none",
          rows |-> [i \in 1..Len(emb.rows) |->
                      <<"pool", w, emb.rows[i], mask.rows[i]>>]]

\* sent_encoder(input_ids, attention_mask=attention_mask)[1]: the BERT forward
\* pass that the checkpointed branch "reproduces" (comment of line 96)
SentEncoder(w, ids, mask) ==
    PartialEncode(w, Embeddings(w, ids), GetExtendedAttentionMask(mask))

\* nn.Linear without bias, applied row by row
Project(which, rows) == [i \in 1..Len(rows) |-> <<"proj", which, rows[i]>>]

-----------------------------------------------------------------------------
(* RetriBertModel.__init__ *)

QueryRef == 1
DocRef == 2

\* a document encoder of its own even when the encoders are to be shared
BertDocInitCopy(share) == DocRef

\* line 84: self.bert_doc = None if config.share_encoders else BertModel(config)
BertDocInit(share) == IF share THEN None ELSE DocRef

\* line 141: self.bert_query if self.bert_doc is None else self.bert_doc
AnswerEncoder(bq, bd) == IF bd = None THEN bq ELSE bd

-----------------------------------------------------------------------------
(* embed_sentences_checkpointed *)

\* line 97: the condition of the non-checkpointed branch
TakesSinglePass(B, C) == C < 0 \/ B < C

\* floor instead of ceil: the smaller last sub-batch is lost
NumSubBatchesFloor(B, C) == B \div C

\* line 122: math.ceil(B / C), for C > 0
NumSubBatches(B, C) == (B + C - 1) \div C

\* the sub-batches visited from the last to the first
RangeReversed(n) == [i \in 1..n |-> n - i]

\* line 122: range(n), the sequence 0, 1, ..., n-1
Range(n) == [i \in 1..n |-> i - 1]

\* lines 123-124: the bounds of sub-batch bb
SubLo(bb, C) == bb * C
SubHi(bb, C) == (bb + 1) * C

\* the pooled outputs concatenated last to first
RECURSIVE CatReversed(_)
CatReversed(list) ==
    IF list = <<>> THEN <<>> ELSE CatReversed(Tail(list)) \o Head(list)

\* line 127: torch.cat(pooled_output_list, dim=0)
RECURSIVE Cat(_)
Cat(list) == IF list = <<>> THEN <<>> ELSE Head(list) \o Cat(Tail(list))

ScoreIdle ==
    /\ q_reps = Tensor(<<>>, 0) /\ a_reps = Tensor(<<>>, 0) /\ spc = "off"
    /\ loss = Unset /\ serr = "none" /\ first_loss = Unset
    /\ relation = [kind |-> "none", perm |-> <<>>]

CallLocalsReset ==
    /\ role' = "none"
    /\ input_ids' = Tensor(<<>>, 0)
    /\ attention_mask' = Tensor(<<>>, 0)
    /\ checkpoint_batch_size' = -1
    /\ sent_encoder' = None
    /\ extended_attention_mask' = Unset
    /\ embedding_output' = Unset
    /\ rng' = <<>>
    /\ it' = 0
    /\ b' = 0
    /\ pooled_output_list' = <<>>
    /\ reps' = Unset
    /\ result' = Unset
    /\ err' = "none"
    /\ single_pass' = FALSE
    /\ emb_runs' = 0
    /\ enc_log' = <<>>

Init ==
    /\ share_encoders \in BOOLEAN
    /\ bert_query = QueryRef
    /\ bert_doc = BertDocInit(share_encoders)
    /\ heap = [r \in {bert_query, bert_doc} \ {None} |-> 0]
    /\ pc = "idle"
    /\ role = "none"
    /\ input_ids = Tensor(<<>>, 0)
    /\ attention_mask = Tensor(<<>>, 0)
    /\ checkpoint_batch_size = -1
    /\ sent_encoder = None
    /\ extended_attention_mask = Unset
    /\ embedding_output = Unset
    /\ rng = <<>>
    /\ it = 0
    /\ b = 0
    /\ pooled_output_list = <<>>
    /\ reps = Unset
    /\ result = Unset
    /\ err = "none"
    /\ single_pass = FALSE
    /\ emb_runs = 0
    /\ enc_log = <<>>
    /\ ScoreIdle

modelvars == <<share_encoders, bert_query, bert_doc, heap>>

\* the optimizer (or any caller) changes the query encoder's parameters
MutateQueryEncoder ==
    /\ pc = "idle"
    /\ \E w \in Weights \ {heap[bert_query]} :
          heap' = [heap EXCEPT ![bert_query] = w]
    /\ UNCHANGED <<share_encoders, bert_query, bert_doc, pc, role, input_ids,
                   attention_mask, checkpoint_batch_size, sent_encoder,
                   extended_attention_mask, embedding_output, rng, it, b,
                   pooled_output_list, reps, result, err, single_pass,
                   emb_runs, enc_log, svars>>

\* embed_questions (line 132) / embed_answers (lines 138-143) are entered:
\* the arguments are bound and the encoder of the role is selected
Call ==
    /\ pc = "idle"
    /\ \E r \in {"query", "doc"}, B \in 0..MaxB, Bm \in 0..MaxB,
          L \in SeqLens, Lm \in SeqLens, C \in (-1)..(MaxB + 1) :
         \E ids \in [1..B -> Vocab], mask \in [1..Bm -> MaskRows] :
            /\ role' = r
            /\ input_ids' = Tensor(ids, L)
            /\ attention_mask' = Tensor(mask, Lm)
            /\ checkpoint_batch_size' = C
            /\ sent_encoder' = IF r = "query" THEN bert_query
                               ELSE AnswerEncoder(bert_query, bert_doc)
    /\ pc' = "line97"
    /\ UNCHANGED <<modelvars, extended_attention_mask, embedding_output, rng, it, b,
                   pooled_output_list, reps, result, err, single_pass,
                   emb_runs, enc_log, svars>>

\* lines 97-98: the whole batch in one non-checkpointed encoder pass
SinglePass ==
    /\ pc = "line97"
    /\ TakesSinglePass(Len(input_ids.rows), checkpoint_batch_size)
    /\ LET out == SentEncoder(heap[sent_encoder], input_ids, attention_mask)
       IN  IF out.err /= "none"
           THEN /\ err' = out.err /\ pc' = "raised" /\ reps' = reps
           ELSE /\ reps' = out.rows /\ pc' = "project" /\ err' = err
    /\ single_pass' = TRUE
    /\ emb_runs' = emb_runs + 1
    /\ UNCHANGED <<modelvars, role, input_ids, attention_mask,
                   checkpoint_batch_size, sent_encoder,
                   extended_attention_mask, embedding_output, rng, it, b,
                   pooled_output_list, result, enc_log, svars>>

\* lines 99-107: the checkpointed branch prepares its implicit variables
Prepare ==
    /\ pc = "line97"
    /\ ~TakesSinglePass(Len(input_ids.rows), checkpoint_batch_size)
    /\ extended_attention_mask' = GetExtendedAttentionMask(attention_mask)
    /\ pc' = "line117"
    /\ UNCHANGED <<modelvars, role, input_ids, attention_mask,
                   checkpoint_batch_size, sent_encoder, embedding_output, rng,
                   it, b, pooled_output_list, reps, result, err, single_pass,
                   emb_runs, enc_log, svars>>

\* lines 117-119: the embedding layer on everything at once
EmbedAll ==
    /\ pc = "line117"
    /\ embedding_output' = Embeddings(heap[sent_encoder], input_ids)
    /\ emb_runs' = emb_runs + 1
    /\ pooled_output_list' = <<>>
    /\ pc' = "line122"
    /\ UNCHANGED <<modelvars, role, input_ids, attention_mask,
                   checkpoint_batch_size, sent_encoder,
                   extended_attention_mask, rng, it, b, reps, result, err,
                   single_pass, enc_log, svars>>

\* line 122: range(math.ceil(B / checkpoint_batch_size)) is evaluated
EnterLoop ==
    /\ pc = "line122"
    /\ IF checkpoint_batch_size = 0
       THEN /\ err' = "ZeroDivisionError" /\ pc' = "raised" /\ rng' = rng
       ELSE /\ rng' = Range(NumSubBatches(Len(input_ids.rows),
                                          checkpoint_batch_size))
            /\ pc' = "loop" /\ err' = err
    /\ it' = 0
    /\ UNCHANGED <<modelvars, role, input_ids, attention_mask,
                   checkpoint_batch_size, sent_encoder,
                   extended_attention_mask, embedding_output, b,
                   pooled_output_list, reps, result, single_pass, emb_runs,
                   enc_log, svars>>

\* lines 123-126: one sub-batch is sliced, encoded and appended
LoopBody ==
    /\ pc = "loop"
    /\ it < Len(rng)
    /\ b' = rng[it + 1]
    /\ it' = it + 1
    /\ LET lo == SubLo(b', checkpoint_batch_size)
           hi == SubHi(b', checkpoint_batch_size)
           b_embedding_output == SliceRows(embedding_output, lo, hi)
           b_attention_mask == SliceRows(extended_attention_mask, lo, hi)
           pooled_output == PartialEncode(heap[sent_encoder],
                                          b_embedding_output, b_attention_mask)
       IN  IF pooled_output.err /= "none"
           THEN /\ err' = pooled_output.err /\ pc' = "raised"
                /\ UNCHANGED pooled_output_list
           ELSE /\ pooled_output_list' = Append(pooled_output_list, pooled_output.rows)
                /\ UNCHANGED <<err, pc>>
    /\ enc_log' = Append(enc_log, b')
    /\ UNCHANGED <<modelvars, role, input_ids, attention_mask,
                   checkpoint_batch_size, sent_encoder,
                   extended_attention_mask, embedding_output, rng, reps,
                   result, single_pass, emb_runs, svars>>

\* line 127: the loop is exhausted, the pooled outputs are concatenated
Concat ==
    /\ pc = "loop"
    /\ it = Len(rng)
    /\ IF pooled_output_list = <<>>
       THEN /\ err' = "EmptyCat" /\ pc' = "raised" /\ reps' = reps
       ELSE /\ reps' = Cat(pooled_output_list) /\ pc' = "project" /\ err' = err
    /\ UNCHANGED <<modelvars, role, input_ids, attention_mask,
                   checkpoint_batch_size, sent_encoder,
                   extended_attention_mask, embedding_output, rng, it, b,
                   pooled_output_list, result, single_pass, emb_runs,
                   enc_log, svars>>

\* lines 133 / 144: the role's projection of the pooled rows
ProjectReps ==
    /\ pc = "project"
    /\ result' = Project(IF role = "query" THEN "project_query" ELSE "project_doc", reps)
    /\ pc' = "returned"
    /\ UNCHANGED <<modelvars, role, input_ids, attention_mask,
                   checkpoint_batch_size, sent_encoder,
                   extended_attention_mask, embedding_output, rng, it, b,
                   pooled_output_list, reps, err, single_pass, emb_runs,
                   enc_log, svars>>

\* the caller has the result (or the exception); the call's frame is gone
Finish ==
    /\ pc \in {"returned", "raised"}
    /\ pc' = "idle"
    /\ CallLocalsReset
    /\ UNCHANGED <<modelvars, svars>>

Next ==
    \/ MutateQueryEncoder
    \/ Call
    \/ SinglePass
    \/ Prepare
    \/ EmbedAll
    \/ EnterLoop
    \/ LoopBody
    \/ Concat
    \/ ProjectReps
    \/ Finish

Spec == Init /\ [][Next]_vars

-----------------------------------------------------------------------------
(* Properties of embed_questions / embed_answers, checked under Spec *)

BatchSize == Len(input_ids.rows)

\* the inputs the interface asks for: mask and token ids of one shape
ShapesAgree == Shape(input_ids) = Shape(attention_mask)

InCall == pc \notin {"idle"}
PastBranch == pc \notin {"idle", "line97"}
Completed == pc \in {"returned", "raised"}
HasReps == pc \in {"project", "returned"}

\* the pooled vector of input row i under the parameters in use
PooledRow(i) ==
    <<"pool", heap[sent_encoder],
      <<"emb", heap[sent_encoder], input_ids.rows[i]>>,
      <<"ext", attention_mask.rows[i]>>>>

\* C1: with 0 < C < B (and well-shaped inputs) the checkpointed pass never
\* raises and returns, row for row, what the non-checkpointed encoder pass
\* (line 98) returns on the same inputs and parameters; the projected result
\* is the projection of that same output.
C1_CheckpointingPreservesOutput ==
    (/\ PastBranch /\ ShapesAgree
     /\ 0 < checkpoint_batch_size /\ checkpoint_batch_size < BatchSize)
    => /\ ~single_pass
       /\ pc /= "raised"
       /\ HasReps =>
            LET whole == SentEncoder(heap[sent_encoder], input_ids, attention_mask)
            IN  /\ whole.err = "none"
                /\ reps = whole.rows
                /\ pc = "returned" =>
                     result = Project(IF role = "query" THEN "project_query"
                                      ELSE "project_doc", whole.rows)

C1_Witness ==
    /\ pc = "returned" /\ ~single_pass /\ ShapesAgree
    /\ checkpoint_batch_size = 2 /\ BatchSize = 3
    /\ input_ids.rows = <<1, 2, 2>> /\ attention_mask.rows = <<1, 0, 1>>
    /\ Len(reps) = 3

\* C2: whenever checkpoint_batch_size <= 0 (0 included) or the batch is
\* smaller than checkpoint_batch_size, the call (on well-shaped inputs) ends
\* by returning the output of one non-checkpointed pass: the loop is not
\* entered and nothing is raised.
C2_NonPositiveSizeIsSinglePass ==
    (/\ Completed /\ ShapesAgree
     /\ (checkpoint_batch_size <= 0 \/ BatchSize < checkpoint_batch_size))
    => /\ pc = "returned"
       /\ err = "none"
       /\ single_pass
       /\ enc_log = <<>>

\* ceil(B / C) stated on its own: the least n with n * C >= B
CeilDiv(B, C) == CHOOSE n \in 0..B : n * C >= B /\ (n = 0 \/ (n - 1) * C < B)

\* C3: with checkpointing active (B >= C > 0, well-shaped inputs) the pass
\* never raises; it produces exactly ceil(B/C) sub-batch outputs, all
\* non-empty, of size C except a possibly smaller last one; row j of
\* sub-batch k is the pooled vector of input row k*C + j (so the sub-batches
\* are contiguous, disjoint and cover 0..B-1), and the concatenation has B
\* rows with row i the pooled vector of input row i.
C3_PartitionCoversBatchInOrder ==
    (/\ PastBranch /\ ShapesAgree
     /\ 0 < checkpoint_batch_size /\ checkpoint_batch_size <= BatchSize)
    => /\ ~single_pass
       /\ pc /= "raised"
       /\ HasReps =>
            LET C == checkpoint_batch_size
                n == CeilDiv(BatchSize, C)
            IN  /\ Len(pooled_output_list) = n
                /\ \A k \in 1..n :
                     /\ Len(pooled_output_list[k]) >= 1
                     /\ Len(pooled_output_list[k]) =
                          (IF k < n THEN C ELSE BatchSize - (n - 1) * C)
                     /\ \A j \in 1..Len(pooled_output_list[k]) :
                          pooled_output_list[k][j] = PooledRow((k - 1) * C + j)
                /\ Len(reps) = BatchSize
                /\ \A i \in 1..BatchSize : reps[i] = PooledRow(i)

C3_Witness ==
    /\ pc = "returned" /\ ShapesAgree
    /\ checkpoint_batch_size = 2 /\ BatchSize = 3
    /\ Len(pooled_output_list) = 2
    /\ Len(pooled_output_list[1]) = 2 /\ Len(pooled_output_list[2]) = 1
    /\ input_ids.rows = <<1, 1, 2>>

\* C4: with share_encoders the document role has no encoder of its own:
\* embed_answers runs the query encoder object, so its pooled output is
\* computed with the query encoder's current (mutated) parameters; without
\* sharing the document encoder is a second object, whose parameters the
\* mutations of the query encoder leave as they were, and embed_answers
\* computes with those.
C4_SharedEncoderIsAliased ==
    /\ share_encoders =>
         /\ bert_doc = None
         /\ (InCall /\ role = "doc") => sent_encoder = bert_query
         /\ (HasReps /\ role = "doc") =>
               \A i \in 1..Len(reps) : reps[i][2] = heap[bert_query]
    /\ ~share_encoders =>
         /\ bert_doc /= None /\ bert_doc /= bert_query
         /\ heap[bert_doc] = 0
         /\ (InCall /\ role = "doc") => sent_encoder = bert_doc
         /\ (HasReps /\ role = "doc") =>
               \A i \in 1..Len(reps) : reps[i][2] = heap[bert_doc]

C4_Witness ==
    /\ share_encoders /\ pc = "returned" /\ role = "doc"
    /\ heap[bert_query] = 1
    /\ Len(reps) = 2 /\ reps[1][2] = 1

\* C8: a call whose token_ids and attention_mask differ in shape never
\* yields pooled output: it ends in an error.
C8_ShapeMismatchRaises ==
    (InCall /\ ~ShapesAgree) => ~HasReps

\* C10: in a checkpointed pass the embedding-lookup layer runs exactly once,
\* over the full batch, before the first sub-batch is encoded; the
\* sub-batches are encoded one at a time in the order 0, 1, 2, ..., each one
\* only after its predecessor's pooled output is in the list; and the pass
\* ends, after sub-batch ceil(B/C) - 1, with the concatenation of the list.
C10_SequentialInOrder ==
    /\ emb_runs <= 1
    /\ (InCall /\ ~single_pass) =>
         /\ enc_log = [i \in 1..Len(enc_log) |-> i - 1]
         /\ enc_log /= <<>> =>
              /\ emb_runs = 1
              /\ Len(embedding_output.rows) = BatchSize
         /\ Len(pooled_output_list) =
              (IF pc = "raised" /\ enc_log /= <<>>
               THEN Len(enc_log) - 1 ELSE Len(enc_log))
         /\ HasReps =>
              /\ Len(enc_log) = CeilDiv(BatchSize, checkpoint_batch_size)
              /\ reps = Cat(pooled_output_list)
    /\ single_pass => enc_log = <<>>

C10_Witness ==
    /\ pc = "returned" /\ ~single_pass
    /\ enc_log = <<0, 1, 2>> /\ emb_runs = 1
    /\ Len(pooled_output_list) = 3

-----------------------------------------------------------------------------
(* The scoring step of forward (lines 181-185), on matrices with integer   *)
(* entries.  A loss is a real number of the form ln(P(e)) / den, where P   *)
(* is a polynomial in e and 1/e with natural coefficients: the mean over   *)
(* n rows of the cross-entropies  ln(sum_j e^(x[i][j] - x[i][t[i]]))  is   *)
(* ln(prod_i sum_j e^(x[i][j] - x[i][t[i]])) / n.  P is kept as the        *)
(* function exponent -> coefficient.  Since e is transcendental, two       *)
(* losses with the same den are the same real number exactly when their    *)
(* polynomials are the same function; rounding is not modelled.            *)
(***************************************************************************)

\* largest number of rows of an embedding matrix given to the scoring step
MaxRows == 2

Vals == {0, 1}           \* entries of the embedding matrices
Dims == {1, 2}           \* projection dimensions (number of columns)

Matrices ==
    UNION {{Tensor(r, c) : r \in [1..n -> [1..c -> Vals]]} :
             n \in 0..MaxRows, c \in Dims}

RECURSIVE SumUpTo(_, _)
SumUpTo(f, n) == IF n = 0 THEN 0 ELSE f[n] + SumUpTo(f, n - 1)

RECURSIVE SumOver(_, _)
SumOver(f, S) ==
    IF S = {} THEN 0
    ELSE LET x == CHOOSE y \in S : TRUE IN f[x] + SumOver(f, S \ {x})

UnitPoly == [x \in {0} |-> 1]

PolyMul(P, Q) ==
    [x \in {a + c : a \in DOMAIN P, c \in DOMAIN Q} |->
       SumOver([a \in DOMAIN P |-> IF (x - a) \in DOMAIN Q
                                   THEN P[a] * Q[x - a] ELSE 0], DOMAIN P)]

RECURSIVE PolyProd(_)
PolyProd(ps) == IF ps = <<>> THEN UnitPoly ELSE PolyMul(Head(ps), PolyProd(Tail(ps)))

\* Tensor.t()
T(m) == Tensor([j \in 1..m.cols |-> [i \in 1..Len(m.rows) |-> m.rows[i][j]]],
               Len(m.rows))

\* the inner dimension cut to the shorter of the two, with no size check
MmTruncating(x, y) ==
    [err |-> "none",
     val |-> Tensor([i \in 1..Len(x.rows) |-> [j \in 1..y.cols |->
                       SumUpTo([k \in 1..Min(x.cols, Len(y.rows)) |->
                                  x.rows[i][k] * y.rows[k][j]],
                               Min(x.cols, Len(y.rows)))]], y.cols)]

\* torch.mm(x, y): raises unless x has as many columns as y has rows
Mm(x, y) ==
    IF x.cols /= Len(y.rows)
    THEN [err |-> "MmSizeMismatch", val |-> Tensor(<<>>, 0)]
    ELSE [err |-> "none",
          val |-> Tensor([i \in 1..Len(x.rows) |-> [j \in 1..y.cols |->
                            SumUpTo([k \in 1..x.cols |->
                                       x.rows[i][k] * y.rows[k][j]], x.cols)]],
                         y.cols)]

\* every row labelled with class 0
ArangeZeros(n) == [i \in 1..n |-> 0]

\* the labels shifted by one: row i labelled with class i + 1 (mod n)
ArangeShifted(n) == [i \in 1..n |-> i % n]

\* torch.arange(n): 0, 1, ..., n-1
Arange(n) == [i \in 1..n |-> i - 1]

NoLoss == [kind |-> "none", den |-> 0, poly |-> UnitPoly]
NaN == [kind |-> "nan", den |-> 0, poly |-> UnitPoly]

\* the softmax denominator of one row, relative to the logit of its label
RowPoly(row, t) ==
    [x \in {row[j] - row[t + 1] : j \in 1..Len(row)} |->
       Cardinality({j \in 1..Len(row) : row[j] - row[t + 1] = x})]

\* nn.CrossEntropyLoss(reduction="mean")(x, target), line 89
CeLoss(x, target) ==
    IF Len(x.rows) /= Len(target)
    THEN [err |-> "CeBatchSizeMismatch", val |-> NoLoss]
    ELSE IF \E i \in 1..Len(target) : target[i] >= x.cols
    THEN [err |-> "CeTargetOutOfBounds", val |-> NoLoss]
    ELSE IF Len(x.rows) = 0
    THEN [err |-> "none", val |-> NaN]
    ELSE [err |-> "none",
          val |-> [kind |-> "value", den |-> Len(x.rows),
                   poly |-> PolyProd([i \in 1..Len(x.rows) |->
                                        RowPoly(x.rows[i], target[i])])]]

\* only the query-to-document direction
FirstOfTwo(l1, l2) == l1

\* line 184: (loss_qa + loss_aq) / 2, for two means over the same number of rows
MeanOfTwo(l1, l2) ==
    IF l1.kind = "nan" \/ l2.kind = "nan" THEN NaN
    ELSE [kind |-> "value", den |-> 2 * l1.den, poly |-> PolyMul(l1.poly, l2.poly)]

\* lines 181-185.  The mean over an empty batch is 0/0: a build of the
\* tensor library either returns NaN or rejects the empty batch, so both
\* outcomes are possible there.
ForwardScore(q, a) ==
    LET mm == Mm(q, T(a))
        compare_scores == mm.val
        loss_qa == CeLoss(compare_scores, Arange(compare_scores.cols))
        loss_aq == CeLoss(T(compare_scores), Arange(Len(compare_scores.rows)))
        mean == MeanOfTwo(loss_qa.val, loss_aq.val)
    IN  IF mm.err /= "none" THEN {[err |-> mm.err, val |-> NoLoss]}
        ELSE IF loss_qa.err /= "none" THEN {[err |-> loss_qa.err, val |-> NoLoss]}
        ELSE IF loss_aq.err /= "none" THEN {[err |-> loss_aq.err, val |-> NoLoss]}
        ELSE IF mean.kind = "nan"
        THEN {[err |-> "none", val |-> NaN],
              [err |-> "CeEmptyBatch", val |-> NoLoss]}
        ELSE {[err |-> "none", val |-> mean]}

Perms(n) == {p \in [1..n -> 1..n] : \A i, j \in 1..n : p[i] = p[j] => i = j}

PermuteRows(m, p) == Tensor([i \in 1..Len(m.rows) |-> m.rows[p[i]]], m.cols)

EmbedIdle ==
    /\ share_encoders = FALSE
    /\ bert_query = QueryRef
    /\ bert_doc = BertDocInit(share_encoders)
    /\ heap = [r \in {bert_query, bert_doc} \ {None} |-> 0]
    /\ pc = "idle"
    /\ role = "none"
    /\ input_ids = Tensor(<<>>, 0)
    /\ attention_mask = Tensor(<<>>, 0)
    /\ checkpoint_batch_size = -1
    /\ sent_encoder = None
    /\ extended_attention_mask = Unset
    /\ embedding_output = Unset
    /\ rng = <<>>
    /\ it = 0
    /\ b = 0
    /\ pooled_output_list = <<>>
    /\ reps = Unset
    /\ result = Unset
    /\ err = "none"
    /\ single_pass = FALSE
    /\ emb_runs = 0
    /\ enc_log = <<>>

InitScore ==
    /\ EmbedIdle
    /\ q_reps \in Matrices
    /\ a_reps \in Matrices
    /\ spc = "ready"
    /\ loss = NoLoss
    /\ serr = "none"
    /\ first_loss = NoLoss
    /\ relation = [kind |-> "none", perm |-> <<>>]

\* lines 181-185 are run on q_reps and a_reps
Score ==
    /\ spc \in {"ready", "ready2"}
    /\ \E o \in ForwardScore(q_reps, a_reps) :
          /\ loss' = o.val
          /\ serr' = o.err
    /\ spc' = IF spc = "ready" THEN "scored" ELSE "rescored"
    /\ UNCHANGED <<evars, q_reps, a_reps, first_loss, relation>>

\* the caller scores again with the two arguments exchanged
SwapArguments ==
    /\ spc = "scored"
    /\ loss.kind = "value"
    /\ q_reps' = a_reps
    /\ a_reps' = q_reps
    /\ first_loss' = loss
    /\ relation' = [kind |-> "swapped", perm |-> <<>>]
    /\ spc' = "ready2"
    /\ UNCHANGED <<evars, loss, serr>>

\* the caller scores again with the rows of both arguments permuted alike
PermuteBoth ==
    /\ spc = "scored"
    /\ loss.kind = "value"
    /\ \E p \in Perms(Len(q_reps.rows)) :
          /\ q_reps' = PermuteRows(q_reps, p)
          /\ a_reps' = PermuteRows(a_reps, p)
          /\ relation' = [kind |-> "permuted", perm |-> p]
    /\ first_loss' = loss
    /\ spc' = "ready2"
    /\ UNCHANGED <<evars, loss, serr>>

NextScore ==
    \/ Score
    \/ SwapArguments
    \/ PermuteBoth

SpecScore == InitScore /\ [][NextScore]_vars

-----------------------------------------------------------------------------
(* Properties of the scoring step, checked under SpecScore *)

Scored == spc \in {"scored", "rescored"}
QRows == Len(q_reps.rows)
ARows == Len(a_reps.rows)

\* C5 as stated: the scoring step raises, and returns no loss, when the two
\* matrices differ in row count or in column count, and also when either
\* has zero rows.
C5_MismatchOrEmptyRaises ==
    (/\ Scored
     /\ (QRows /= ARows \/ q_reps.cols /= a_reps.cols \/ QRows = 0 \/ ARows = 0))
    => (serr /= "none" /\ loss = NoLoss)

\* C5 as amended: the scoring step raises, and returns no loss, when the two
\* matrices differ in row count or in column count.
C5_MismatchRaises ==
    (Scored /\ (QRows /= ARows \/ q_reps.cols /= a_reps.cols))
    => /\ loss = NoLoss
       /\ serr = (IF q_reps.cols /= a_reps.cols
                  THEN "MmSizeMismatch" ELSE "CeBatchSizeMismatch")

C5_Witness ==
    /\ spc = "scored" /\ QRows = 2 /\ ARows = 1
    /\ q_reps.cols = a_reps.cols
    /\ serr = "CeBatchSizeMismatch" /\ loss = NoLoss

\* C6: scoring (D, Q) returns the same loss as scoring (Q, D), for all
\* matrices Q, D of one shape with at least one row.
C6_Symmetric ==
    (spc = "rescored" /\ relation.kind = "swapped")
    => (serr = "none" /\ loss.kind = "value" /\ loss = first_loss)

C6_Witness ==
    /\ spc = "rescored" /\ relation.kind = "swapped"
    /\ a_reps.rows = << <<1>>, <<0>> >> /\ q_reps.rows = << <<1>>, <<1>> >>
    /\ loss.kind = "value"

\* C7: permuting the rows of Q and of D by one permutation leaves the loss
\* unchanged, for every permutation of the rows of every batch of at least
\* one row.
C7_PermutationInvariant ==
    (spc = "rescored" /\ relation.kind = "permuted")
    => (serr = "none" /\ loss.kind = "value" /\ loss = first_loss)

C7_Witness ==
    /\ spc = "rescored" /\ relation.kind = "permuted"
    /\ relation.perm = <<2, 1>>
    /\ q_reps.rows = << <<0>>, <<1>> >> /\ a_reps.rows = << <<1>>, <<1>> >>
    /\ loss.kind = "value"

\* the similarity of query i and document j, from the two matrices
Sim(i, j) ==
    SumUpTo([k \in 1..q_reps.cols |-> q_reps.rows[i][k] * a_reps.rows[j][k]],
            q_reps.cols)

\* C9: a returned loss is (loss_qa + loss_aq) / 2 where loss_qa is the mean
\* over rows i of the cross-entropy of row i of S against class i and
\* loss_aq the mean over columns j of the cross-entropy of column j of S
\* against class j, S[i][j] being the dot product of query i and document
\* j.  With one row the loss is the cross-entropy of a prediction that
\* cannot be wrong, 0.  With Q = D = [[1], [0]] it is
\* ln(4 + 8/e + 4/e^2) / 4 = (ln 2 + ln(1 + 1/e)) / 2.
C9_DiagonalLabelsMeanOfBoth ==
    (Scored /\ serr = "none" /\ loss.kind = "value")
    => /\ QRows = ARows /\ QRows >= 1
       /\ loss.den = 2 * QRows
       /\ loss.poly =
            PolyMul(
              PolyProd([i \in 1..QRows |->
                 [x \in {Sim(i, j) - Sim(i, i) : j \in 1..ARows} |->
                    Cardinality({j \in 1..ARows : Sim(i, j) - Sim(i, i) = x})]]),
              PolyProd([j \in 1..ARows |->
                 [x \in {Sim(i, j) - Sim(j, j) : i \in 1..QRows} |->
                    Cardinality({i \in 1..QRows : Sim(i, j) - Sim(j, j) = x})]]))
       /\ QRows = 1 => loss.poly = UnitPoly
       /\ (q_reps.rows = << <<1>>, <<0>> >> /\ a_reps.rows = << <<1>>, <<0>> >>)
            => (loss.den = 4 /\ loss.poly = (0 :> 4) @@ (-1 :> 8) @@ (-2 :> 4))

C9_Witness ==
    /\ spc = "scored" /\ serr = "none"
    /\ q_reps.rows = << <<1>>, <<0>> >> /\ a_reps.rows = << <<1>>, <<0>> >>
    /\ loss.den = 4

====
